---- MODULE Spec2Model ----
(***************************************************************************)
(* Model of the two ingestion scripts of the repository:                   *)
(*   src/src/ingestion/ingest_crypto.py  (Binance klines, paginated)       *)
(*   src/src/ingestion/ingest_stocks.py  (Alpha Vantage, retry/fallback)   *)
(* Times are integers (milliseconds since the epoch, scaled down).  The    *)
(* providers are the environment: every response is a nondeterministic     *)
(* choice, so a property that holds only for well-behaved providers states *)
(* that behaviour as its hypothesis.                                       *)
(***************************************************************************)
EXTENDS Integers, Sequences, FiniteSets, TLC

\* ---------------------------------------------------------------- bounds
\* Largest timestamp a provider record carries (times are 0..MaxTime).
MaxTime == 2
\* Largest number of page requests of one fetch_binance_klines call explored.
MaxRequests == 2

\* Largest ALPHAVANTAGE_MAX_RETRIES the environment sets (it is 0..MaxRetries).
MaxRetries == 3
\* Largest number of rows of an Alpha Vantage payload.
MaxRows == 1

\* ------------------------------------------------------- program constants
\* ingest_crypto.py:33 REQUEST_LIMIT = 1000, scaled down to 2 records a page.
REQUEST_LIMIT == 2
\* ingest_crypto.py:30 DEFAULT_SYMBOLS
DEFAULT_SYMBOLS == <<"BTCUSDT", "ETHUSDT">>
\* ingest_stocks.py:37 STOCK_SYMBOLS
STOCK_SYMBOLS == <<"AAPL", "MSFT", "TSLA", "IBM">>
\* Python's None, for an integer-valued optional.
None == -1

VARIABLES
    \* ---- ingest_crypto.py
    cpc,          \* position of run_crypto_ingestion: "idle", "loop" (top of the
                  \* while True of fetch_binance_klines), "fetched" (the fetch has
                  \* returned, save_crypto_data is next), "done", "raised"
    symIdx,       \* index in symbols of the instrument being ingested
    start_ms,     \* _to_millis(start_date)
    end_ms,       \* _to_millis(end_date), None when end_date is None
    next_start,   \* the time cursor
    frames,       \* pages accumulated by the current fetch
    df,           \* the table the current fetch returned
    cerr,         \* the error run_crypto_ingestion died with, "" when none
    cfiles,       \* the symbols (by index) whose CSV file has been written
    \* ---- history of the current fetch (not program state)
    requests,     \* the params of every page request issued, in order
    lastPage,     \* the page received for the last request
    sleeps,       \* number of time.sleep(RATE_LIMIT_SLEEP) performed
    requested,    \* instruments for which at least one request was issued
    \* ---- ingest_stocks.py: module-level configuration (read from the environment)
    API_KEY,                \* "" when ALPHAVANTAGE_API_KEY is missing
    API_FUNCTION,
    STOCK_OUTPUT_SIZE,
    COMMODITY_API_KEY,
    COMMODITY_FALLBACK_KEY, \* "" when set empty
    MAX_RETRIES,
    \* ---- ingest_stocks.py: main and the fetch it is in
    spc,          \* "idle", "import" (module top level), "commodity" / "stock"
                  \* (top of the for loop of fetch_commodity / fetch_daily_stock),
                  \* "returned" (the fetch has returned, to_csv is next), "done",
                  \* "raised"
    jobIdx,       \* index in Jobs(API_FUNCTION) of the fetch main is at
    attempt,      \* the loop variable; 0 before the first iteration
    key_to_use,
    fallback_used,
    current_output_size,
    sdf,          \* number of rows of the table the fetch returned
    serr,         \* the error main died with
    sfiles,       \* the CSV files written, by name
    \* ---- history of the current fetch (not program state)
    sreqs,        \* the params of every request issued, in order
    resps,        \* the response to each
    delays,       \* number of time.sleep(RETRY_DELAY_SECONDS) performed
    substitutions,\* number of times key_to_use was replaced by the fallback key
    srequested    \* names of the jobs for which at least one request was issued

cryptoVars == <<cpc, symIdx, start_ms, end_ms, next_start, frames, df, cerr,
                cfiles, requests, lastPage, sleeps, requested>>
stockConf == <<API_KEY, API_FUNCTION, STOCK_OUTPUT_SIZE, COMMODITY_API_KEY,
               COMMODITY_FALLBACK_KEY, MAX_RETRIES>>
stockVars == <<stockConf, spc, jobIdx, attempt, key_to_use, fallback_used,
               current_output_size, sdf, serr, sfiles, sreqs, resps, delays,
               substitutions, srequested>>
vars == <<cryptoVars, stockVars>>

\* ------------------------------------------------------------ the provider
Times == 0..MaxTime
\* A kline, reduced to the two columns the fetcher reads.  A record closes at
\* most one time unit away from its open, possibly before it (malformed).
Candles == {r \in [open_time : Times, close_time : Times] :
                r.close_time - r.open_time \in -1..1}
\* The start_date and end_date arguments run_crypto_ingestion is called with.
StartDates == {0, 1}
EndDates == {None} \cup 0..(MaxTime + 1)
\* Every page a provider can answer with: at most REQUEST_LIMIT records.  The
\* fetcher reads close_time from the last record of a page only, so the other
\* records are taken to close where they open.
Pages == {p \in UNION {[1..n -> Candles] : n \in 0..REQUEST_LIMIT} :
            \A k \in 1..(Len(p) - 1) : p[k].close_time = p[k].open_time}

\* --------------------------------------------------------------- helpers
\* Python truthiness of an Optional[int]: None and 0 are falsy.
Truthy(x) == x # None /\ x # 0

\* _to_millis: None stays None; a date is its millisecond count.
_to_millis(ts) == IF ts = None THEN None ELSE ts

\* The query parameters of one page request.
Params(cursor, e) ==
    [startTime |-> cursor, endTime |-> IF Truthy(e) THEN e ELSE None]

\* Variants of the cursor advance: from the first record of the page, and
\* without the step past the last close_time.
AdvanceCursorFirst(frame) == frame[1].close_time + 1
AdvanceCursorNoStep(frame) == frame[Len(frame)].close_time

\* last_close_time = int(frame["close_time"].iloc[-1]); next_start = it + 1
AdvanceCursor(frame) == frame[Len(frame)].close_time + 1

\* Variant of the break condition that ignores the page length.
StopAfterPageEndOnly(e, cursor, frame) == Truthy(e) /\ cursor >= e

\* The break condition that follows the cursor advance.
StopAfterPage(e, cursor, frame) ==
    (Truthy(e) /\ cursor >= e) \/ Len(frame) < REQUEST_LIMIT

\* Variant of the loop tail that does not sleep.
NoRateLimitSleep(n) == n

\* time.sleep(RATE_LIMIT_SLEEP) at the end of an iteration that goes on: the
\* number of sleeps performed, after n before it.
RateLimitSleep(n) == n + 1

\* pd.concat(frames, ignore_index=True)
RECURSIVE Concat(_)
Concat(fs) == IF fs = <<>> THEN <<>> ELSE Head(fs) \o Concat(Tail(fs))

\* df.sort_values("open_time").reset_index(drop=True): record i of s goes to
\* the position that counts the records opening before it and the records
\* of its open_time up to it.
SortByOpenTime(s) ==
    LET Rank(i) == Cardinality({j \in 1..Len(s) :
                        \/ s[j].open_time < s[i].open_time
                        \/ s[j].open_time = s[i].open_time /\ j <= i})
    IN  [k \in 1..Len(s) |-> s[CHOOSE i \in 1..Len(s) : Rank(i) = k]]

\* Variant of the result that is built from the last page alone.
NormalizeLastFrame(fs) == SortByOpenTime(fs[Len(fs)])

\* The table fetch_binance_klines returns for the accumulated frames.
Normalize(fs) == SortByOpenTime(Concat(fs))

\* Locals of a fresh fetch_binance_klines call.
FreshFetch ==
    /\ next_start' = start_ms
    /\ frames' = <<>>
    /\ df' = <<>>
    /\ requests' = <<>>
    /\ lastPage' = <<>>
    /\ sleeps' = 0

\* ------------------------------------------------------------------ Init
CryptoRun ==
    /\ cpc = "loop"
    /\ symIdx = 1
    /\ start_ms \in {_to_millis(d) : d \in StartDates}
    /\ end_ms \in {_to_millis(d) : d \in EndDates}
    /\ next_start = start_ms
    /\ frames = <<>>
    /\ df = <<>>
    /\ cerr = ""
    /\ cfiles = {}
    /\ requests = <<>>
    /\ lastPage = <<>>
    /\ sleeps = 0
    /\ requested = {}

\* --------------------------------------------------------------- actions
\* Variant of leaving the loop without the emptiness check.
LeaveLoopNoCheck(fs) ==
    /\ cpc' = "fetched"
    /\ df' = Normalize(fs)
    /\ cerr' = cerr

\* Leaving the while True: raise when nothing was accumulated, else return
\* the normalized table.
LeaveLoop(fs) ==
    IF fs = <<>>
    THEN /\ cpc' = "raised"
         /\ cerr' = "No data returned"
         /\ df' = df
    ELSE /\ cpc' = "fetched"
         /\ df' = Normalize(fs)
         /\ cerr' = cerr

\* One iteration of the while True of fetch_binance_klines, the provider
\* answering the request with the page klines.
FetchPageBody(klines) ==
    /\ cpc = "loop"
    /\ requests' = Append(requests, Params(next_start, end_ms))
    /\ requested' = requested \cup {symIdx}
    /\ lastPage' = klines
    /\ IF klines = <<>>
       THEN /\ LeaveLoop(frames)
            /\ UNCHANGED <<frames, next_start, sleeps>>
       ELSE /\ frames' = Append(frames, klines)
            /\ next_start' = AdvanceCursor(klines)
            /\ IF StopAfterPage(end_ms, AdvanceCursor(klines), klines)
               THEN /\ LeaveLoop(Append(frames, klines))
                    /\ sleeps' = sleeps
               ELSE /\ sleeps' = RateLimitSleep(sleeps)
                    /\ UNCHANGED <<cpc, df, cerr>>
    /\ UNCHANGED <<symIdx, start_ms, end_ms, cfiles>>
    /\ UNCHANGED stockVars

\* The iteration, explored for the first MaxRequests requests of a fetch.
FetchPage(klines) ==
    /\ Len(requests) < MaxRequests
    /\ FetchPageBody(klines)

\* One iteration of the while True in which session.get or
\* resp.raise_for_status() raises (the transport's retries are used up, or the
\* status is an error): the exception leaves fetch_binance_klines and
\* run_crypto_ingestion.
FetchPageFailsBody ==
    /\ cpc = "loop"
    /\ requests' = Append(requests, Params(next_start, end_ms))
    /\ requested' = requested \cup {symIdx}
    /\ cpc' = "raised"
    /\ cerr' = "HTTPError"
    /\ UNCHANGED <<symIdx, start_ms, end_ms, next_start, frames, df, cfiles,
                   lastPage, sleeps>>
    /\ UNCHANGED stockVars

\* The failing iteration, explored for the first MaxRequests requests.
FetchPageFails ==
    /\ Len(requests) < MaxRequests
    /\ FetchPageFailsBody

\* Variant of the loop body of run_crypto_ingestion that skips the save.
ContinueWithoutSave ==
    /\ cpc = "fetched"
    /\ cfiles' = cfiles
    /\ IF symIdx < Len(DEFAULT_SYMBOLS)
       THEN /\ symIdx' = symIdx + 1
            /\ cpc' = "loop"
            /\ FreshFetch
       ELSE /\ cpc' = "done"
            /\ UNCHANGED <<symIdx, next_start, frames, df, requests, lastPage, sleeps>>
    /\ UNCHANGED <<start_ms, end_ms, cerr, requested>>
    /\ UNCHANGED stockVars

\* The rest of one iteration of run_crypto_ingestion: save_crypto_data, then
\* the next symbol's fetch begins (or the loop is over).
SaveAndContinue ==
    /\ cpc = "fetched"
    /\ cfiles' = cfiles \cup {symIdx}
    /\ IF symIdx < Len(DEFAULT_SYMBOLS)
       THEN /\ symIdx' = symIdx + 1
            /\ cpc' = "loop"
            /\ FreshFetch
       ELSE /\ cpc' = "done"
            /\ UNCHANGED <<symIdx, next_start, frames, df, requests, lastPage, sleeps>>
    /\ UNCHANGED <<start_ms, end_ms, cerr, requested>>
    /\ UNCHANGED stockVars

\* ingest_crypto.py is not running.
CryptoIdle ==
    /\ cpc = "idle"
    /\ symIdx = 1
    /\ start_ms = 0
    /\ end_ms = None
    /\ next_start = 0
    /\ frames = <<>>
    /\ df = <<>>
    /\ cerr = ""
    /\ cfiles = {}
    /\ requests = <<>>
    /\ lastPage = <<>>
    /\ sleeps = 0
    /\ requested = {}

NextCrypto ==
    \/ \E klines \in Pages : FetchPage(klines)
    \/ FetchPageFails
    \/ SaveAndContinue

\* ======================================================= ingest_stocks.py
\* One JSON body of an Alpha Vantage response: the "Information" and "Note"
\* strings ("" when absent or empty), whether the expected top-level key
\* ("data", "Time Series (Daily)") is present, and how many rows it holds.
Responses ==
    {[Information |-> i, Note |-> n, hasKey |-> FALSE, rows |-> 0] :
        i \in {"premium feature", "rate limit"}, n \in {"", "call frequency"}}
    \cup {[Information |-> "", Note |-> "call frequency", hasKey |-> FALSE, rows |-> 0],
          [Information |-> "rate limit", Note |-> "", hasKey |-> TRUE, rows |-> 1],
          [Information |-> "", Note |-> "", hasKey |-> FALSE, rows |-> 0]}
    \cup {[Information |-> "", Note |-> "", hasKey |-> TRUE, rows |-> r] :
            r \in 0..MaxRows}

\* info_msg = data.get("Information") or data.get("Note"); "" stands for a
\* falsy result.
InfoMsg(data) == IF data.Information # "" THEN data.Information ELSE data.Note

\* str.lower() on the output sizes of the model.
Lower(x) == IF x = "FULL" THEN "full" ELSE x

\* Variant of premium_full that takes every advisory for a premium one.
PremiumFullAlways(msg) == TRUE

\* premium_full: "outputsize=full" or "premium feature" occurs in the message.
PremiumFull(msg) == msg \in {"premium feature", "outputsize=full"}

\* The condition under which fetch_commodity switches to the fallback key.
CanSubstitute(used, key) ==
    ~used /\ COMMODITY_FALLBACK_KEY # "" /\ key # COMMODITY_FALLBACK_KEY

\* Variant of the loop bound that allows one more iteration.
LoopContinuesOnceMore(att) == att <= MAX_RETRIES

\* for attempt in range(1, MAX_RETRIES + 1): another iteration follows att
\* iterations.
LoopContinues(att) == att < MAX_RETRIES

\* Variant of the retry test that gives up one attempt early.
MayRetryOffByOne(att) == att + 1 < MAX_RETRIES

\* if attempt < MAX_RETRIES: sleep and retry
MayRetry(att) == att < MAX_RETRIES

\* An exception: its type, which raise statement made it, the advisory text
\* its message embeds and the payload its message embeds.
Error(type, why, text, payload) ==
    [type |-> type, why |-> why, text |-> text, payload |-> payload]
NoError == Error("", "", "", <<>>)

\* The advisory ValueError of fetch_commodity and fetch_daily_stock.
AdvisoryError(data) == Error("ValueError", "advisory", InfoMsg(data), <<>>)
\* Variant of the unexpected-response error that leaves the payload out.
SchemaErrorNoPayload(data) == Error("ValueError", "unexpected response", "", <<>>)

\* raise ValueError(f"Unexpected response for ...: {data}")
SchemaError(data) == Error("ValueError", "unexpected response", "", <<data>>)
\* raise RuntimeError(f"Failed to fetch ... after {MAX_RETRIES} attempts.")
ExhaustedError == Error("RuntimeError", "failed after attempts", "", <<>>)

\* The exception of requests.get / resp.raise_for_status().
HTTPError == Error("HTTPError", "request failed", "", <<>>)

\* What main() does, as the sequence of fetches it makes; each writes one file.
Jobs(f) ==
    IF f = "NATURAL_GAS"
    THEN <<[kind |-> "commodity", name |-> "NATURAL_GAS"],
           [kind |-> "commodity", name |-> "BRENT"],
           [kind |-> "stock", name |-> "IBM"]>>
    ELSE IF f = "BRENT"
    THEN <<[kind |-> "commodity", name |-> "BRENT"]>>
    ELSE [i \in 1..Len(STOCK_SYMBOLS) |-> [kind |-> "stock", name |-> STOCK_SYMBOLS[i]]]

Job == Jobs(API_FUNCTION)[jobIdx]

\* Locals of a fresh fetch_commodity / fetch_daily_stock call.
FreshStockFetch ==
    /\ attempt' = 0
    /\ key_to_use' = COMMODITY_API_KEY
    /\ fallback_used' = FALSE
    /\ current_output_size' = STOCK_OUTPUT_SIZE
    /\ sdf' = 0
    /\ sreqs' = <<>>
    /\ resps' = <<>>
    /\ delays' = 0
    /\ substitutions' = 0

\* main() moves on to its fetch number i, or returns.
StartJob(i) ==
    /\ jobIdx' = i
    /\ spc' = IF i > Len(Jobs(API_FUNCTION)) THEN "done" ELSE Jobs(API_FUNCTION)[i].kind
    /\ FreshStockFetch

Raise(e) ==
    /\ spc' = "raised"
    /\ serr' = e

StockLocalsIdle ==
    /\ jobIdx = 1
    /\ attempt = 0
    /\ key_to_use = ""
    /\ fallback_used = FALSE
    /\ current_output_size = ""
    /\ sdf = 0
    /\ serr = NoError
    /\ sfiles = {}
    /\ sreqs = <<>>
    /\ resps = <<>>
    /\ delays = 0
    /\ substitutions = 0
    /\ srequested = {}

StocksRun ==
    /\ spc = "import"
    /\ API_KEY \in {"", "primary"}
    /\ API_FUNCTION \in {"NATURAL_GAS", "BRENT", "TIME_SERIES_DAILY"}
    /\ STOCK_OUTPUT_SIZE \in {"full", "compact"}
    /\ COMMODITY_API_KEY \in {API_KEY, "demo"}
    /\ COMMODITY_FALLBACK_KEY \in {"", "demo"}
    /\ MAX_RETRIES \in 0..MaxRetries
    /\ StockLocalsIdle

\* ingest_stocks.py is not running.
StocksIdle ==
    /\ spc = "idle"
    /\ API_KEY = ""
    /\ API_FUNCTION = ""
    /\ STOCK_OUTPUT_SIZE = ""
    /\ COMMODITY_API_KEY = ""
    /\ COMMODITY_FALLBACK_KEY = ""
    /\ MAX_RETRIES = 0
    /\ StockLocalsIdle

\* Variant of the module's top level without the API key check.
LoadModuleNoCheck ==
    /\ spc = "import"
    /\ StartJob(1)
    /\ serr' = serr
    /\ UNCHANGED <<stockConf, sfiles, srequested>>
    /\ UNCHANGED cryptoVars

\* The module's top level: the API key check, then main().
LoadModule ==
    /\ spc = "import"
    /\ IF API_KEY = ""
       THEN /\ Raise(Error("RuntimeError", "ALPHAVANTAGE_API_KEY is missing", "", <<>>))
            /\ UNCHANGED <<jobIdx, attempt, key_to_use, fallback_used,
                           current_output_size, sdf, sreqs, resps, delays,
                           substitutions>>
       ELSE /\ StartJob(1)
            /\ serr' = serr
    /\ UNCHANGED <<stockConf, sfiles, srequested>>
    /\ UNCHANGED cryptoVars

\* One iteration of the for loop of fetch_commodity, the provider answering
\* the request with the body data.
CommodityAttempt(data) ==
    /\ spc = "commodity"
    /\ LoopContinues(attempt)
    /\ attempt' = attempt + 1
    /\ sreqs' = Append(sreqs, [apikey |-> key_to_use, outputsize |-> ""])
    /\ resps' = Append(resps, data)
    /\ srequested' = srequested \cup {Job.name}
    /\ IF InfoMsg(data) # ""
       THEN IF CanSubstitute(fallback_used, key_to_use)
            THEN /\ key_to_use' = COMMODITY_FALLBACK_KEY
                 /\ fallback_used' = TRUE
                 /\ substitutions' = substitutions + 1
                 /\ UNCHANGED <<spc, serr, sdf, delays>>
            ELSE IF MayRetry(attempt + 1)
            THEN /\ delays' = delays + 1
                 /\ UNCHANGED <<spc, serr, sdf, key_to_use, fallback_used, substitutions>>
            ELSE /\ Raise(AdvisoryError(data))
                 /\ UNCHANGED <<sdf, delays, key_to_use, fallback_used, substitutions>>
       ELSE /\ IF ~data.hasKey
               THEN Raise(SchemaError(data)) /\ sdf' = sdf
               ELSE IF data.rows = 0
               THEN Raise(Error("ValueError", "returned no data", "", <<>>)) /\ sdf' = sdf
               ELSE spc' = "returned" /\ sdf' = data.rows /\ serr' = serr
            /\ UNCHANGED <<delays, key_to_use, fallback_used, substitutions>>
    /\ UNCHANGED <<stockConf, jobIdx, current_output_size, sfiles>>
    /\ UNCHANGED cryptoVars

\* The for loop of fetch_commodity runs out: the raise that follows it.
RetriesExhausted ==
    /\ spc = "commodity"
    /\ ~LoopContinues(attempt)
    /\ Raise(ExhaustedError)
    /\ UNCHANGED <<stockConf, jobIdx, attempt, key_to_use, fallback_used,
                   current_output_size, sdf, sfiles, sreqs, resps, delays,
                   substitutions, srequested>>
    /\ UNCHANGED cryptoVars

\* One iteration of the for loop of fetch_daily_stock (range(1, 3)) and, when
\* it breaks, the rest of the function.  The loop cannot run out: a second
\* iteration is made with "compact" and so breaks or raises.
StockAttempt(data) ==
    /\ spc = "stock"
    /\ attempt < 2
    /\ attempt' = attempt + 1
    /\ sreqs' = Append(sreqs, [apikey |-> API_KEY, outputsize |-> current_output_size])
    /\ resps' = Append(resps, data)
    /\ srequested' = srequested \cup {Job.name}
    /\ IF InfoMsg(data) # ""
       THEN IF PremiumFull(InfoMsg(data)) /\ Lower(current_output_size) = "full"
            THEN /\ current_output_size' = "compact"
                 /\ UNCHANGED <<spc, serr, sdf>>
            ELSE /\ Raise(AdvisoryError(data))
                 /\ UNCHANGED <<sdf, current_output_size>>
       ELSE /\ IF ~data.hasKey
               THEN Raise(SchemaError(data)) /\ sdf' = sdf
               ELSE IF data.rows = 0
               THEN Raise(Error("KeyError", "date", "", <<>>)) /\ sdf' = sdf
               ELSE spc' = "returned" /\ sdf' = data.rows /\ serr' = serr
            /\ UNCHANGED current_output_size
    /\ UNCHANGED <<stockConf, jobIdx, key_to_use, fallback_used, sfiles, delays,
                   substitutions>>
    /\ UNCHANGED cryptoVars

\* An iteration of either for loop in which requests.get or
\* resp.raise_for_status() raises: the exception leaves the fetch and main().
RequestFails ==
    /\ \/ spc = "commodity" /\ LoopContinues(attempt)
       \/ spc = "stock" /\ attempt < 2
    /\ attempt' = attempt + 1
    /\ sreqs' = Append(sreqs, [apikey |-> IF spc = "stock" THEN API_KEY ELSE key_to_use,
                               outputsize |-> IF spc = "stock" THEN current_output_size ELSE ""])
    /\ srequested' = srequested \cup {Job.name}
    /\ Raise(HTTPError)
    /\ UNCHANGED <<stockConf, jobIdx, key_to_use, fallback_used, current_output_size,
                   sdf, sfiles, resps, delays, substitutions>>
    /\ UNCHANGED cryptoVars

\* main() after a fetch returned: df.to_csv(...), then its next fetch.
WriteCsv ==
    /\ spc = "returned"
    /\ sfiles' = sfiles \cup {Job.name}
    /\ StartJob(jobIdx + 1)
    /\ UNCHANGED <<stockConf, serr, srequested>>
    /\ UNCHANGED cryptoVars

NextStocks ==
    \/ LoadModule
    \/ \E data \in Responses : CommodityAttempt(data)
    \/ RetriesExhausted
    \/ \E data \in Responses : StockAttempt(data)
    \/ RequestFails
    \/ WriteCsv

InitCrypto == CryptoRun /\ StocksIdle
SpecCrypto == InitCrypto /\ [][NextCrypto]_vars

InitStocks == StocksRun /\ CryptoIdle
SpecStocks == InitStocks /\ [][NextStocks]_vars

\* main() keeps running: it has a single thread, and every request is
\* answered or fails within its timeout.
SpecStocksFair == InitStocks /\ [][NextStocks]_vars /\ WF_vars(NextStocks)

\* Either script is run.
Init == InitCrypto \/ InitStocks
Next == NextCrypto \/ NextStocks
Spec == Init /\ [][Next]_vars
\* ---------------------------------------------- providers of finite history
\* The pages of a provider that answers a request only with records whose
\* close_time is at least the requested startTime (its history ends at
\* MaxTime).
ObedientPages(cursor) ==
    {p \in Pages : \A k \in 1..Len(p) : p[k].close_time >= cursor}

\* run_crypto_ingestion against such a provider: every iteration of every
\* fetch is explored, and the script keeps running (it has a single thread,
\* and each request is answered or fails within its timeout).
NextCryptoObedient ==
    \/ \E klines \in ObedientPages(next_start) : FetchPageBody(klines)
    \/ FetchPageFailsBody
    \/ SaveAndContinue
SpecCryptoObedient ==
    InitCrypto /\ [][NextCryptoObedient]_vars /\ WF_vars(NextCryptoObedient)

\* ================================================================ claims
\* ------------------------------------------------- fetch_binance_klines
\* Every request of the fetch in progress (or just ended) was answered with
\* a page, and there is at least one.
PageReceived == cpc # "idle" /\ requests # <<>> /\ cerr # "HTTPError"
FullPage == Len(lastPage) = REQUEST_LIMIT
\* The fetch was called with an end boundary / with one Python treats as true.
EndGiven == end_ms # None
EndInForce == end_ms # None /\ end_ms # 0
\* The cursor advanced past the last page received is at or past the end.
CursorPastEnd == lastPage[Len(lastPage)].close_time + 1 >= end_ms

\* C1 as stated: a page of REQUEST_LIMIT records never ends pagination (the
\* fetch is back at the top of its loop, where the next request is issued),
\* and a shorter page always ends it, with or without an end boundary.
C1_FullPageNeverStops ==
    PageReceived =>
        /\ FullPage => cpc = "loop"
        /\ ~FullPage => cpc # "loop"

\* C1 amended: a page of REQUEST_LIMIT records ends pagination exactly when a
\* non-zero end boundary is given and last close_time + 1 is at or past it,
\* else the fetch is back at the top of its loop; a shorter page always ends
\* pagination.
C1_FullPageStopsOnlyAtEnd ==
    PageReceived =>
        /\ FullPage => (cpc = "loop" <=> ~(EndInForce /\ CursorPastEnd))
        /\ ~FullPage => cpc # "loop"

\* C1 witness: with an end boundary in force a full page was received and the
\* loop goes on.
C1_Witness ==
    PageReceived /\ FullPage /\ EndInForce /\ cpc = "loop"

\* The provider answered every request of the fetch whose page was kept with
\* records inside the requested window, both ends included.
ProviderInsideWindow ==
    \A i \in 1..Len(frames) : \A k \in 1..Len(frames[i]) :
        /\ requests[i].endTime # None
        /\ requests[i].startTime <= frames[i][k].open_time
        /\ frames[i][k].open_time <= requests[i].endTime

\* C2 as stated: a fetch with end boundary E returns no record whose
\* open_time is >= E, whenever the provider kept inside the requested window.
C2_NoRecordAtOrPastEnd ==
    (cpc = "fetched" /\ EndGiven /\ ProviderInsideWindow) =>
        \A k \in 1..Len(df) : df[k].open_time < end_ms

\* Hypotheses on a page answered to a request with startTime s.
FromStart(page, s) == \A k \in 1..Len(page) : page[k].open_time >= s
ClosesAfterOpen(page) == \A k \in 1..Len(page) : page[k].close_time >= page[k].open_time
Ascending(page) ==
    \A j, k \in 1..Len(page) : j < k => page[j].open_time <= page[k].open_time
StrictlyAscending(page) ==
    \A j, k \in 1..Len(page) : j < k => page[j].open_time < page[k].open_time

SortedTable(t) == \A j, k \in 1..Len(t) : j < k => t[j].open_time <= t[k].open_time
NoDuplicates(t) == \A j, k \in 1..Len(t) : j # k => t[j].open_time # t[k].open_time

\* C5 as stated: the returned table is sorted by open_time and has no two
\* records with the same open_time, whenever every page held only records with
\* open_time >= startTime, in ascending (non-decreasing) order, each with
\* close_time >= open_time.
C5_SortedNoDuplicates ==
    (/\ cpc = "fetched"
     /\ \A i \in 1..Len(frames) :
            /\ FromStart(frames[i], requests[i].startTime)
            /\ Ascending(frames[i])
            /\ ClosesAfterOpen(frames[i]))
    => SortedTable(df) /\ NoDuplicates(df)

\* C5 amended: the same, for providers whose pages are strictly ascending by
\* open_time (no page repeats an open_time).
C5_SortedNoDuplicatesStrict ==
    (/\ cpc = "fetched"
     /\ \A i \in 1..Len(frames) :
            /\ FromStart(frames[i], requests[i].startTime)
            /\ StrictlyAscending(frames[i])
            /\ ClosesAfterOpen(frames[i]))
    => SortedTable(df) /\ NoDuplicates(df)

\* C5 witness: a fetch of two pages from such a provider has returned.
C5_Witness ==
    /\ cpc = "fetched"
    /\ Len(frames) = 2
    /\ Len(df) > REQUEST_LIMIT
    /\ \A i \in 1..Len(frames) :
            /\ FromStart(frames[i], requests[i].startTime)
            /\ StrictlyAscending(frames[i])
            /\ ClosesAfterOpen(frames[i])

\* C6: the startTime of every request after the first is greater than the
\* close_time of the last record of the page answered to the request before.
C6_CursorStrictlyMonotonic ==
    cpc # "idle" =>
        \A i \in 1..(Len(requests) - 1) :
            requests[i + 1].startTime > frames[i][Len(frames[i])].close_time

\* C6 witness: a second request was issued.
C6_Witness == cpc # "idle" /\ Len(requests) = 2

\* C7: an empty page answered to the first request of a fetch makes the fetch
\* raise its no-data error, and the instrument has no file.
C7_EmptyFirstPageRaises ==
    (PageReceived /\ Len(requests) = 1 /\ lastPage = <<>>) =>
        /\ cpc = "raised"
        /\ cerr = "No data returned"
        /\ symIdx \notin cfiles

\* C7 witness: the second instrument's first page was empty.
C7_Witness ==
    /\ PageReceived /\ Len(requests) = 1 /\ lastPage = <<>>
    /\ symIdx = 2 /\ cpc = "raised"

\* ------------------------------------- fetch_commodity, fetch_daily_stock
\* main() is in (or has just left) a call of fetch_commodity / any fetch.
InFetch == spc \in {"commodity", "stock", "returned", "raised"}
InCommodityFetch == InFetch /\ Job.kind = "commodity"
FetchOver == spc \in {"returned", "raised"}
Advisory(data) == InfoMsg(data) # ""
ValidPayload(data) == ~Advisory(data) /\ data.hasKey /\ data.rows > 0
LacksKey(data) == ~Advisory(data) /\ ~data.hasKey

\* C3 as stated: for MAX_RETRIES >= 1, when the first response is an advisory
\* and a fallback key other than the key in use is configured, a second request
\* is issued, with the fallback key; a valid second response is returned as the
\* table, the key having been substituted exactly once.
C3_FallbackRetryIssued ==
    (/\ InCommodityFetch
     /\ MAX_RETRIES >= 1
     /\ Len(resps) >= 1
     /\ Advisory(resps[1])
     /\ COMMODITY_FALLBACK_KEY # ""
     /\ sreqs[1].apikey # COMMODITY_FALLBACK_KEY)
    => /\ FetchOver => Len(sreqs) >= 2
       /\ Len(sreqs) >= 2 => sreqs[2].apikey = COMMODITY_FALLBACK_KEY
       /\ (Len(resps) >= 2 /\ ValidPayload(resps[2])) =>
            /\ spc = "returned"
            /\ sdf = resps[2].rows
            /\ substitutions = 1

\* C4 as stated: for MAX_RETRIES >= 1, when fetch_commodity has failed, every
\* request having been answered and every response having been an advisory,
\* its error carries the advisory text of the last response.
C4_ExhaustedErrorCarriesAdvisory ==
    (/\ InCommodityFetch
     /\ spc = "raised"
     /\ MAX_RETRIES >= 1
     /\ resps # <<>>
     /\ Len(sreqs) = Len(resps)
     /\ \A i \in 1..Len(resps) : Advisory(resps[i]))
    => serr.text = InfoMsg(resps[Len(resps)])

\* C8: a response without advisory and without the expected top-level key is
\* the last response of its fetch; the fetch has raised an error holding that
\* payload, returned no table, and the instrument has no file.
C8_SchemaMismatchFatal ==
    InFetch =>
        \A i \in 1..Len(resps) :
            LacksKey(resps[i]) =>
                /\ i = Len(resps)
                /\ Len(sreqs) = i
                /\ spc = "raised"
                /\ serr.type = "ValueError"
                /\ serr.payload = <<resps[i]>>
                /\ sdf = 0
                /\ Job.name \notin sfiles

\* C8 witness: the second response of a fetch lacked the key and the fetch
\* raised with it.
C8_Witness ==
    /\ InFetch
    /\ spc = "raised"
    /\ Len(resps) = 2
    /\ LacksKey(resps[2])
    /\ serr.payload = <<resps[2]>>

\* C10: an iteration of fetch_commodity that receives an advisory, cannot
\* substitute the fallback key and has issued fewer than MAX_RETRIES requests
\* sleeps RETRY_DELAY_SECONDS and goes on to the next iteration, which issues a
\* request; it raises nothing.
C10_Step ==
    (/\ spc = "commodity"
     /\ Len(resps') = Len(resps) + 1
     /\ Advisory(resps'[Len(resps')])
     /\ (fallback_used \/ COMMODITY_FALLBACK_KEY = "" \/ key_to_use = COMMODITY_FALLBACK_KEY)
     /\ Len(sreqs') < MAX_RETRIES)
    => /\ delays' = delays + 1
       /\ spc' = "commodity"
       /\ attempt' < MAX_RETRIES
       /\ serr' = NoError
       /\ key_to_use' = key_to_use
C10_SleepThenRetry == [][C10_Step]_vars

\* C10 witness: a fetch slept after an advisory, retried and returned a table.
C10_Witness ==
    /\ InCommodityFetch
    /\ spc = "returned"
    /\ delays >= 1
    /\ Len(sreqs) = delays + substitutions + 1

\* ------------------------------------------------------------ batch runs
\* C9, run_crypto_ingestion: an instrument is requested only when every
\* earlier instrument has its file; once a fetch has failed, no later
\* instrument was requested or written, and every earlier one has its file.
C9_Crypto ==
    cpc # "idle" =>
        /\ \A j \in requested : \A k \in 1..(j - 1) : k \in cfiles
        /\ cfiles \subseteq requested
        /\ cerr # "" =>
            /\ cpc = "raised"
            /\ \A j \in 1..Len(DEFAULT_SYMBOLS) :
                    j > symIdx => j \notin requested /\ j \notin cfiles
            /\ symIdx \notin cfiles
            /\ \A k \in 1..(symIdx - 1) : k \in cfiles

\* C9, main(): the same for the fetches main() makes.
C9_Stocks ==
    spc \notin {"idle", "import"} =>
        LET jobs == Jobs(API_FUNCTION) IN
        /\ \A j \in 1..Len(jobs) :
                jobs[j].name \in srequested =>
                    \A k \in 1..(j - 1) : jobs[k].name \in sfiles
        /\ sfiles \subseteq srequested
        /\ serr # NoError =>
            /\ spc = "raised"
            /\ \A j \in 1..Len(jobs) :
                    j > jobIdx => jobs[j].name \notin srequested /\ jobs[j].name \notin sfiles
            /\ jobs[jobIdx].name \notin sfiles
            /\ \A k \in 1..(jobIdx - 1) : jobs[k].name \in sfiles

\* C9: in both batch runs instruments are processed one after another, and a
\* failed fetch ends the batch, the files written before it staying.
C9_SequentialBatch == C9_Crypto /\ C9_Stocks

\* C9 witness: in the stock-symbol loop the second symbol's fetch failed
\* after the first symbol's file was written.
C9_Witness ==
    /\ spc = "raised"
    /\ API_FUNCTION = "TIME_SERIES_DAILY"
    /\ jobIdx = 2
    /\ sfiles = {"AAPL"}
    /\ srequested = {"AAPL", "MSFT"}

\* ------------------------------------------------------ later properties
\* The positions <<i, k>> of the records of the pages kept by the fetch.
PagePositions ==
    {pos \in (1..Len(frames)) \X (1..REQUEST_LIMIT) : pos[2] <= Len(frames[pos[1]])}
\* How often record r occurs in the pages kept / in the table t.
OccurrencesInPages(r) ==
    Cardinality({pos \in PagePositions : frames[pos[1]][pos[2]] = r})
OccurrencesInTable(r, t) == Cardinality({k \in 1..Len(t) : t[k] = r})

\* C11: the table a fetch returns has as many rows as the pages received
\* have records, and holds every record as often as the pages do.
C11_TableIsConcatenation ==
    cpc = "fetched" =>
        /\ Len(df) = Cardinality(PagePositions)
        /\ \A r \in Candles : OccurrencesInTable(r, df) = OccurrencesInPages(r)

\* C11 witness: a fetch of a full page and a short page returned three rows.
C11_Witness ==
    /\ cpc = "fetched"
    /\ Len(frames) = 2
    /\ Len(frames[1]) = REQUEST_LIMIT
    /\ Len(frames[2]) = 1
    /\ Len(df) = REQUEST_LIMIT + 1

\* C12: with ALPHAVANTAGE_API_KEY missing the script gets no further than
\* its configuration error: no request was issued and no file written.
C12_MissingKeyFatal ==
    (spc # "idle" /\ API_KEY = "") =>
        /\ spc \in {"import", "raised"}
        /\ sreqs = <<>>
        /\ srequested = {}
        /\ sfiles = {}
        /\ spc = "raised" =>
            /\ serr.type = "RuntimeError"
            /\ serr.why = "ALPHAVANTAGE_API_KEY is missing"

\* C12 witness: the script has died of the missing key.
C12_Witness ==
    spc = "raised" /\ API_KEY = "" /\ serr.type = "RuntimeError"

\* C13, the cursor: the startTime values of the requests of a fetch are
\* strictly increasing, the cursor is never behind the last startTime, and a
\* fetch issues at most one request per time unit of the provider's history,
\* and one more.
C13_CursorForward ==
    cpc # "idle" =>
        /\ \A i \in 1..(Len(requests) - 1) :
                requests[i + 1].startTime > requests[i].startTime
        /\ requests # <<>> => next_start >= requests[Len(requests)].startTime
        /\ cpc = "loop" /\ requests # <<>> =>
                next_start > requests[Len(requests)].startTime
        /\ Len(requests) <= MaxTime + 2

\* C13: against a provider of finite history that answers only with records
\* whose close_time is at least the requested startTime, every fetch ends
\* (returns or raises), its cursor moving forward all along.
C13_FetchTerminates ==
    /\ []C13_CursorForward
    /\ (cpc = "loop") ~> (cpc # "loop")

\* C13 witness: a fetch has ended after three requests.
C13_Witness ==
    /\ cpc \in {"fetched", "raised"}
    /\ Len(requests) = 3
    /\ cerr # "HTTPError"

\* C14 as stated: when the fetch is called with an end boundary E, the epoch
\* (0 ms) included, every page request carries E as its endTime, and every
\* request after the first has a startTime below E.
C14_EveryRequestCarriesEnd ==
    (cpc # "idle" /\ EndGiven) =>
        /\ \A i \in 1..Len(requests) : requests[i].endTime = end_ms
        /\ \A i \in 2..Len(requests) : requests[i].startTime < end_ms

\* ----------------------------------------------------- fetch_daily_stock
\* A fetch_daily_stock call is in progress or over (the module was loaded).
InStockFetch == InFetch /\ API_KEY # "" /\ Job.kind = "stock"
\* The body is an advisory about the premium tier or outputsize=full.
PremiumAdvisory(data) == InfoMsg(data) \in {"premium feature", "outputsize=full"}

\* C15: fetch_daily_stock issues at most two requests; a second one only after
\* the first, made with "full", was answered with a premium/outputsize
\* advisory, and then with "compact"; an advisory answered to a "compact"
\* request fails the fetch with the advisory error; a valid payload answered
\* to the second request is returned as the table, with no error recorded.
C15_DowngradeOnce ==
    InStockFetch =>
        /\ Len(sreqs) <= 2
        /\ Len(sreqs) = 2 =>
                /\ sreqs[1].outputsize = "full"
                /\ PremiumAdvisory(resps[1])
                /\ sreqs[2].outputsize = "compact"
        /\ \A i \in 1..Len(resps) :
                (sreqs[i].outputsize = "compact" /\ Advisory(resps[i])) =>
                    /\ i = Len(sreqs)
                    /\ spc = "raised"
                    /\ serr = AdvisoryError(resps[i])
        /\ (Len(resps) = 2 /\ ValidPayload(resps[2])) =>
                /\ spc = "returned"
                /\ serr = NoError
                /\ sdf = resps[2].rows

\* C15 witness: a fetch downgraded to "compact" has returned its table.
C15_Witness ==
    /\ InStockFetch
    /\ spc = "returned"
    /\ Len(sreqs) = 2
    /\ sreqs[2].outputsize = "compact"
    /\ ValidPayload(resps[2])

\* ------------------------------------------------------- fetch_commodity
\* A fetch_commodity call is in progress or over (the module was loaded).
CommodityCalled == InCommodityFetch /\ API_KEY # ""

\* C16, the ceiling: a fetch_commodity call has issued at most MAX_RETRIES
\* requests, those made with the fallback key included, and with
\* MAX_RETRIES = 0 it ends with the exhaustion error and no request.
C16_RequestCeiling ==
    CommodityCalled =>
        /\ Len(sreqs) <= MAX_RETRIES
        /\ (MAX_RETRIES = 0 /\ FetchOver) =>
                /\ spc = "raised"
                /\ serr = ExhaustedError
                /\ sreqs = <<>>
                /\ srequested = {}

C17_SleepBetweenRequests ==
    cpc # "idle" =>
        /\ cpc = "loop" => sleeps = Len(requests)
        /\ cpc # "loop" => requests # <<>> /\ sleeps = Len(requests) - 1

\* C17 witness: a fetch has returned after two requests and one sleep.
C17_Witness ==
    /\ cpc = "fetched"
    /\ Len(requests) = 2
    /\ sleeps = 1

====
